---- MODULE Spec2Model ----
(***************************************************************************)
(* simple_arithmetic: an interactive calculator.  A line of text goes      *)
(* through Scanner.scan, Parser.parse and Evaluator.evaluate               *)
(* (SimpleArithmetic.eval); SimpleArithmetic.repl does this for every line *)
(* it reads.                                                               *)
(*                                                                         *)
(* A str is a sequence of characters, a character a one-element string.    *)
(* "SUP2" stands for the single character U+00B2 (SUPERSCRIPT TWO), for    *)
(* which str.isnumeric() holds and which int() rejects.  A Python list     *)
(* index i is the TLA+ index i + 1.                                        *)
(***************************************************************************)
EXTENDS Integers, Sequences, FiniteSets, TLC

VARIABLES
    pc,        \* where SimpleArithmetic.eval is: a statement of scan / parse / evaluate
    source,    \* the argument of SimpleArithmetic.eval
    scan,      \* Scanner.scan's locals: current, tokens
    parser,    \* the Parser instance: __tokens, __current
    frame,     \* the locals of Parser.__term and Parser.__factor
    ast,       \* the Node Parser.parse returned
    outcome,   \* what eval returned (an int) or raised (an exception)
    probe,     \* history: the token indices the last parser step used, its __match
    driver,    \* who calls eval: SimpleArithmetic.repl, or a client holding the instance
    loop,      \* SimpleArithmetic.repl's while loop: running / crashed / exited
    calls,     \* number of eval calls made on the instance
    first      \* history: the first eval call's source and outcome, and whether a
               \* call made since has raised

vars == <<pc, source, scan, parser, frame, ast, outcome, probe, driver, loop, calls, first>>

(***************************************************************************)
(* Bounds                                                                  *)
(***************************************************************************)
MaxLen == 5        \* longest source line of a single eval
SessionLen == 2    \* longest source line of a session of several evals
MaxCalls == 3      \* eval calls in a session

(***************************************************************************)
(* Characters                                                              *)
(***************************************************************************)
OperatorChars == {"+", "-", "*"}
DecimalChars == {"3"}
NumericChars == DecimalChars \cup {"SUP2"}
SpaceChars == {" "}
OtherChars == {"&"}
Chars == OperatorChars \cup NumericChars \cup SpaceChars \cup OtherChars
SessionChars == {"3", "+", "&", "SUP2"}

IsNumeric(c) == c \in NumericChars

IsSpace(c) == c \in SpaceChars

IsDecimal(c) == c \in DecimalChars

DigitValue(c) == CASE c = "3" -> 3 [] OTHER -> 0

StringsUpTo(alphabet, n) == UNION {[1..k -> alphabet] : k \in 0..n}

(***************************************************************************)
(* token.py                                                                *)
(***************************************************************************)
TokenType == {"PLUS", "MINUS", "MUL", "NUM"}

TokenTypeValue(type) == IF type = "NUM" THEN "NUMBER" ELSE type

Token(type, lexeme) == [type |-> type, lexeme |-> lexeme]

(***************************************************************************)
(* Outcomes of a call: a returned int, or a raised exception               *)
(***************************************************************************)
\* kind: "int" or the exception's class; by: the class whose method raised it
NoOutcome == [kind |-> "none", value |-> 0, arg |-> "", by |-> ""]

Returned(n) == [kind |-> "int", value |-> n, arg |-> "", by |-> ""]

Raised(exception, arg) == [kind |-> exception, value |-> 0, arg |-> arg, by |-> ""]

Raise(s, by, exception) ==
    [s EXCEPT !.pc = "raised", !.outcome = [exception EXCEPT !.by = by]]

UnexpectedInputError(message) == Raised("UnexpectedInputError", message)

ParseError == Raised("ParseError", "Wrong syntax")

EvaluationError == Raised("EvaluationError", "Unknown operator")

IndexError == Raised("IndexError", "")

ValueError == Raised("ValueError", "")

(***************************************************************************)
(* scanner.py                                                              *)
(***************************************************************************)
ScanOperatorToken(lexeme) ==
    Token(CASE lexeme = "+" -> "PLUS" [] lexeme = "-" -> "MINUS" [] lexeme = "*" -> "MUL",
          <<lexeme>>)

\* a plausible slip: no loop, a NUM token is one character long
NumberEndOneCharacter(current, src) == current + 1

RECURSIVE NumberEnd(_, _)
\* the while loop of __scan_number: the first position at or after current that
\* is past the end or holds a non-numeric character
NumberEnd(current, src) ==
    IF current < Len(src) /\ IsNumeric(src[current + 1])
    THEN NumberEnd(current + 1, src)
    ELSE current

ScanNumber(start, src) ==
    LET current == NumberEnd(start, src)
    IN  [current |-> current,
         token |-> Token("NUM", SubSeq(src, start + 1, current))]

\* a plausible slip: a match statement without the default case, the character
\* is passed over
UnexpectedInputSkipped(s, lexeme) == [s EXCEPT !.scan.current = s.scan.current + 1]

\* the default case of scan's match statement (line 24)
UnexpectedInput(s, lexeme) == Raise(s, "Scanner", UnexpectedInputError(lexeme))

\* one pass through the body of Scanner.scan's while loop, or its exit
ScanStep(s) ==
    LET current == s.scan.current
        tokens == s.scan.tokens
    IN  IF current < Len(s.source)
        THEN LET lexeme == s.source[current + 1]
             IN  CASE lexeme \in OperatorChars ->
                        [s EXCEPT !.scan = [current |-> current + 1,
                                            tokens |-> Append(tokens, ScanOperatorToken(lexeme))]]
                   [] lexeme \notin OperatorChars /\ IsNumeric(lexeme) ->
                        LET n == ScanNumber(current, s.source)
                        IN  [s EXCEPT !.scan = [current |-> n.current,
                                                tokens |-> Append(tokens, n.token)]]
                   [] lexeme \notin OperatorChars /\ ~IsNumeric(lexeme) /\ IsSpace(lexeme) ->
                        [s EXCEPT !.scan.current = current + 1]
                   [] OTHER ->
                        UnexpectedInput(s, lexeme)
        ELSE [s EXCEPT !.pc = "parse"]

(***************************************************************************)
(* ast.py                                                                  *)
(***************************************************************************)
NoNode == [node |-> "None"]

Literal(value) == [node |-> "Literal", value |-> value]

BinOp(left, operator, right) ==
    [node |-> "BinOp", left |-> left, operator |-> operator, right |-> right]

RECURSIVE Format(_)
\* Formatter: node.accept(Formatter()); the str is a sequence of characters, an
\* operator's name (TokenType.value) standing as one element
Format(node) ==
    IF node.node = "BinOp"
    THEN <<"(", TokenTypeValue(node.operator), " ">> \o Format(node.left)
            \o <<" ">> \o Format(node.right) \o <<")">>
    ELSE node.value.lexeme

(***************************************************************************)
(* parser.py: the private helpers, on the instance p = (__tokens, __current)*)
(***************************************************************************)
\* Python's list indexing: -len .. len-1 are valid, anything else IndexError
InRange(tokens, i) == -Len(tokens) <= i /\ i < Len(tokens)

At(tokens, i) == tokens[IF i >= 0 THEN i + 1 ELSE Len(tokens) + i + 1]

\* a plausible slip: parse stores the tokens and leaves the cursor where the
\* previous parse left it
ParserResetTokensOnly(p, tokens) == [tokens |-> tokens, current |-> p.current]

\* parse lines 11-12
ParserReset(p, tokens) == [tokens |-> tokens, current |-> 0]

IsLast(p) == p.current = Len(p.tokens) - 1

Peek(p) == At(p.tokens, p.current)

Previous(p) == At(p.tokens, p.current - 1)

\* a plausible slip: no __is_last guard
AdvanceUnguarded(p) == [p EXCEPT !.current = p.current + 1]

Advance(p) == IF ~IsLast(p) THEN [p EXCEPT !.current = p.current + 1] ELSE p

\* raised: the __peek of line 52 is out of range
Expected(p, token_type) ==
    IF IsLast(p)
    THEN [raised |-> FALSE, value |-> FALSE]
    ELSE IF ~InRange(p.tokens, p.current)
         THEN [raised |-> TRUE, value |-> FALSE]
         ELSE [raised |-> FALSE, value |-> Peek(p).type = token_type]

RECURSIVE MatchFrom(_, _, _)
\* the for loop of __match, from its k-th token type on
MatchFrom(p, token_types, k) ==
    IF k > Len(token_types)
    THEN [parser |-> p, raised |-> FALSE, value |-> FALSE]
    ELSE LET e == Expected(p, token_types[k])
         IN  IF e.raised
             THEN [parser |-> p, raised |-> TRUE, value |-> FALSE]
             ELSE IF e.value
                  THEN [parser |-> Advance(p), raised |-> FALSE, value |-> TRUE]
                  ELSE MatchFrom(p, token_types, k + 1)

Match(p, token_types) == MatchFrom(p, token_types, 1)

\* __literal: the node it returns, or what it raises
LiteralCall(p) ==
    IF ~InRange(p.tokens, p.current)
    THEN [parser |-> p, raised |-> IndexError, node |-> NoNode]
    ELSE IF At(p.tokens, p.current).type = "NUM"
         THEN [parser |-> Advance(p), raised |-> NoOutcome, node |-> Literal(Peek(p))]
         ELSE [parser |-> p, raised |-> ParseError, node |-> NoNode]

(***************************************************************************)
(* History of a parser step: the indices it used on __tokens, and what its *)
(* __match saw and did.                                                    *)
(***************************************************************************)
NoProbe == [indices |-> {}, matched |-> FALSE, on_last |-> FALSE,
            value |-> FALSE, moved |-> FALSE]

LiteralProbe(p) == [NoProbe EXCEPT !.indices = {p.current}]

\* __match looks at __tokens[__current] unless __is_last; after a successful
\* __match the caller reads __previous()
MatchProbe(p, m) ==
    [indices |-> (IF IsLast(p) THEN {} ELSE {p.current})
                    \cup (IF m.value THEN {m.parser.current - 1} ELSE {}),
     matched |-> TRUE, on_last |-> IsLast(p), value |-> m.value,
     moved |-> m.parser.current # p.current]

(***************************************************************************)
(* parser.py: parse, __term, __factor, statement by statement              *)
(***************************************************************************)
NoFrame == [term |-> NoNode, term_operator |-> "", factor |-> NoNode,
            factor_operator |-> "", call_site |-> ""]

\* parse (lines 11-13) up to the first statement of __factor, called from line 16
ParseStep(s) ==
    [s EXCEPT !.pc = "factor_literal",
              !.parser = ParserReset(s.parser, s.scan.tokens),
              !.frame = [NoFrame EXCEPT !.call_site = "term:16"],
              !.probe = NoProbe]

\* __factor line 26
FactorLiteralStep(s) ==
    LET r == LiteralCall(s.parser)
        t == [s EXCEPT !.probe = LiteralProbe(s.parser)]
    IN  IF r.raised.kind # "none"
        THEN Raise(t, "Parser", r.raised)
        ELSE [t EXCEPT !.pc = "factor_match", !.parser = r.parser,
                       !.frame.factor = r.node]

\* __factor's while loop taking token_types for operators: the loop goes on
\* (line 29), or __factor returns (line 33) into __term line 16 or lines 20-21
FactorLoop(s, token_types) ==
    LET m == Match(s.parser, token_types)
        t == [s EXCEPT !.probe = MatchProbe(s.parser, m)]
    IN  IF m.raised \/ (m.value /\ ~InRange(m.parser.tokens, m.parser.current - 1))
        THEN Raise(t, "Parser", IndexError)
        ELSE IF m.value
        THEN [t EXCEPT !.pc = "factor_right", !.parser = m.parser,
                       !.frame.factor_operator = Previous(m.parser).type]
        ELSE [t EXCEPT !.pc = "term_match",
                       !.frame.term = IF s.frame.call_site = "term:16"
                                      THEN s.frame.factor
                                      ELSE BinOp(s.frame.term, s.frame.term_operator,
                                                 s.frame.factor)]

\* a plausible slip: one precedence level, __factor takes every operator
FactorMatchStepAnyOperator(s) == FactorLoop(s, <<"MUL", "PLUS", "MINUS">>)

\* __factor line 28
FactorMatchStep(s) == FactorLoop(s, <<"MUL">>)

\* __factor lines 30-31
FactorRightStep(s) ==
    LET r == LiteralCall(s.parser)
        t == [s EXCEPT !.probe = LiteralProbe(s.parser)]
    IN  IF r.raised.kind # "none"
        THEN Raise(t, "Parser", r.raised)
        ELSE [t EXCEPT !.pc = "factor_match", !.parser = r.parser,
                       !.frame.factor = BinOp(s.frame.factor, s.frame.factor_operator,
                                              r.node)]

\* __term line 18: the loop goes on (lines 19-20), or __term and parse return
\* (line 23, line 13)
TermMatchStep(s) ==
    LET m == Match(s.parser, <<"PLUS", "MINUS">>)
        t == [s EXCEPT !.probe = MatchProbe(s.parser, m)]
    IN  IF m.raised \/ (m.value /\ ~InRange(m.parser.tokens, m.parser.current - 1))
        THEN Raise(t, "Parser", IndexError)
        ELSE IF m.value
        THEN [t EXCEPT !.pc = "factor_literal", !.parser = m.parser,
                       !.frame.term_operator = Previous(m.parser).type,
                       !.frame.call_site = "term:20"]
        ELSE [t EXCEPT !.pc = "evaluate", !.ast = s.frame.term]

(***************************************************************************)
(* evaluator.py                                                            *)
(***************************************************************************)
RECURSIVE DecimalValue(_)
DecimalValue(lexeme) ==
    IF lexeme = <<>> THEN 0
    ELSE 10 * DecimalValue(SubSeq(lexeme, 1, Len(lexeme) - 1))
            + DigitValue(lexeme[Len(lexeme)])

\* int(str): the base-10 value of a run of decimal digits, ValueError for
\* anything else
IntOf(lexeme) ==
    IF lexeme # <<>> /\ \A i \in 1..Len(lexeme) : IsDecimal(lexeme[i])
    THEN Returned(DecimalValue(lexeme))
    ELSE ValueError

VisitLiteral(literal) == IntOf(literal.value.lexeme)

\* a plausible slip: the operands of MINUS the other way round
BinOpResultSwapped(operator, left, right) ==
    CASE operator = "PLUS" -> Returned(left + right)
      [] operator = "MINUS" -> Returned(right - left)
      [] operator = "MUL" -> Returned(left * right)
      [] OTHER -> EvaluationError

\* the match statement of visit_BinOp
BinOpResult(operator, left, right) ==
    CASE operator = "PLUS" -> Returned(left + right)
      [] operator = "MINUS" -> Returned(left - right)
      [] operator = "MUL" -> Returned(left * right)
      [] OTHER -> EvaluationError

RECURSIVE Accept(_)

\* an exception raised while visiting left or right leaves visit_BinOp at once
VisitBinOp(bin_op) ==
    LET left == Accept(bin_op.left)
    IN  IF left.kind # "int" THEN left
        ELSE LET right == Accept(bin_op.right)
             IN  IF right.kind # "int" THEN right
                 ELSE BinOpResult(bin_op.operator, left.value, right.value)

\* node.accept(Evaluator())
Accept(node) ==
    IF node.node = "BinOp" THEN VisitBinOp(node) ELSE VisitLiteral(node)

Evaluate(node) == Accept(node)

\* SimpleArithmetic.eval lines 37-38
EvaluateStep(s) ==
    LET result == Evaluate(s.ast)
    IN  IF result.kind = "int"
        THEN [s EXCEPT !.pc = "returned", !.outcome = result]
        ELSE Raise(s, "Evaluator", result)

(***************************************************************************)
(* SimpleArithmetic.eval as a state machine                                *)
(***************************************************************************)
State ==
    [pc |-> pc, source |-> source, scan |-> scan, parser |-> parser,
     frame |-> frame, ast |-> ast, outcome |-> outcome, probe |-> probe]

Commit(t) ==
    /\ pc' = t.pc
    /\ source' = t.source
    /\ scan' = t.scan
    /\ parser' = t.parser
    /\ frame' = t.frame
    /\ ast' = t.ast
    /\ outcome' = t.outcome
    /\ probe' = t.probe

\* a Parser() that has not parsed yet (it has no __tokens and no __current)
NewParser == [tokens |-> <<>>, current |-> 0]

\* eval is entered with source: scan's locals are initialised (lines 8-9)
EvalCall(s, line) ==
    [s EXCEPT !.pc = "scan", !.source = line,
              !.scan = [current |-> 0, tokens |-> <<>>],
              !.frame = NoFrame, !.ast = NoNode, !.outcome = NoOutcome,
              !.probe = NoProbe]

Lines == StringsUpTo(Chars, MaxLen)

Init ==
    /\ source \in Lines
    /\ pc = "scan"
    /\ scan = [current |-> 0, tokens |-> <<>>]
    /\ parser = NewParser
    /\ frame = NoFrame
    /\ ast = NoNode
    /\ outcome = NoOutcome
    /\ probe = NoProbe
    /\ driver = "client"
    /\ loop = "none"
    /\ calls = 1
    /\ first = [source |-> <<>>, outcome |-> NoOutcome, failed |-> FALSE]

Session == <<driver, loop, calls, first>>

AtChar == pc = "scan" /\ scan.current < Len(source)

Lexeme == source[scan.current + 1]

ScanOperator ==
    /\ AtChar /\ Lexeme \in OperatorChars
    /\ Commit(ScanStep(State))
    /\ UNCHANGED Session

ScanNumeric ==
    /\ AtChar /\ Lexeme \notin OperatorChars /\ IsNumeric(Lexeme)
    /\ Commit(ScanStep(State))
    /\ UNCHANGED Session

ScanSpace ==
    /\ AtChar /\ Lexeme \notin OperatorChars /\ ~IsNumeric(Lexeme) /\ IsSpace(Lexeme)
    /\ Commit(ScanStep(State))
    /\ UNCHANGED Session

ScanUnexpected ==
    /\ AtChar /\ Lexeme \notin OperatorChars /\ ~IsNumeric(Lexeme) /\ ~IsSpace(Lexeme)
    /\ Commit(ScanStep(State))
    /\ UNCHANGED Session

ScanReturn ==
    /\ pc = "scan" /\ ~(scan.current < Len(source))
    /\ Commit(ScanStep(State))
    /\ UNCHANGED Session

Parse ==
    /\ pc = "parse"
    /\ Commit(ParseStep(State))
    /\ UNCHANGED Session

FactorLiteral ==
    /\ pc = "factor_literal"
    /\ Commit(FactorLiteralStep(State))
    /\ UNCHANGED Session

FactorMatch ==
    /\ pc = "factor_match"
    /\ Commit(FactorMatchStep(State))
    /\ UNCHANGED Session

FactorRight ==
    /\ pc = "factor_right"
    /\ Commit(FactorRightStep(State))
    /\ UNCHANGED Session

TermMatch ==
    /\ pc = "term_match"
    /\ Commit(TermMatchStep(State))
    /\ UNCHANGED Session

EvaluateAst ==
    /\ pc = "evaluate"
    /\ Commit(EvaluateStep(State))
    /\ UNCHANGED Session

Next ==
    \/ ScanOperator
    \/ ScanNumeric
    \/ ScanSpace
    \/ ScanUnexpected
    \/ ScanReturn
    \/ Parse
    \/ FactorLiteral
    \/ FactorMatch
    \/ FactorRight
    \/ TermMatch
    \/ EvaluateAst

Spec == Init /\ [][Next]_vars

(***************************************************************************)
(* A session: several eval calls on one SimpleArithmetic instance, made by *)
(* SimpleArithmetic.repl or by a client that holds the instance and        *)
(* handles what eval raises.  Here one eval call is one step.              *)
(***************************************************************************)
Step(s) ==
    CASE s.pc = "scan" -> ScanStep(s)
      [] s.pc = "parse" -> ParseStep(s)
      [] s.pc = "factor_literal" -> FactorLiteralStep(s)
      [] s.pc = "factor_match" -> FactorMatchStep(s)
      [] s.pc = "factor_right" -> FactorRightStep(s)
      [] s.pc = "term_match" -> TermMatchStep(s)
      [] s.pc = "evaluate" -> EvaluateStep(s)

RECURSIVE Run(_)
Run(s) == IF s.pc \in {"returned", "raised"} THEN s ELSE Run(Step(s))

\* eval has returned or raised: the locals of scan, __term and __factor are gone
Left(t) ==
    [t EXCEPT !.scan = [current |-> 0, tokens |-> <<>>], !.frame = NoFrame,
              !.ast = NoNode, !.probe = NoProbe]

\* SimpleArithmetic.eval, from call to return or raise
Eval(s, line) == Left(Run(EvalCall(s, line)))

SessionLines == StringsUpTo(SessionChars, SessionLen)

InitSession ==
    /\ driver \in {"repl", "client"}
    /\ loop = IF driver = "repl" THEN "running" ELSE "none"
    /\ calls = 0
    /\ first = [source |-> <<>>, outcome |-> NoOutcome, failed |-> FALSE]
    /\ pc = "idle"
    /\ source = <<>>
    /\ scan = [current |-> 0, tokens |-> <<>>]
    /\ parser = NewParser
    /\ frame = NoFrame
    /\ ast = NoNode
    /\ outcome = NoOutcome
    /\ probe = NoProbe

Called(line, t) ==
    /\ Commit(t)
    /\ calls' = calls + 1
    /\ first' = IF calls = 0
                THEN [source |-> line, outcome |-> t.outcome, failed |-> FALSE]
                ELSE [first EXCEPT !.failed = first.failed \/ t.pc = "raised"]
    /\ UNCHANGED driver

\* what becomes of repl's loop when eval(input()) ends in state t: line 43 has
\* no try statement around it, so an exception leaves the while loop and repl
ReplAfter(t) == IF t.pc = "returned" THEN "running" ELSE "crashed"

\* repl line 43, eval returns: the result is printed and the loop goes on
ReplPrint ==
    /\ driver = "repl" /\ loop = "running" /\ calls < MaxCalls
    /\ \E line \in SessionLines :
          LET t == Eval(State, line)
          IN  /\ t.pc = "returned"
              /\ Called(line, t)
              /\ loop' = ReplAfter(t)

\* repl line 43, eval raises
ReplRaise ==
    /\ driver = "repl" /\ loop = "running" /\ calls < MaxCalls
    /\ \E line \in SessionLines :
          LET t == Eval(State, line)
          IN  /\ t.pc = "raised"
              /\ Called(line, t)
              /\ loop' = ReplAfter(t)

\* SIGINT: sig_int_handler prints and calls sys.exit()
Interrupt ==
    /\ driver = "repl" /\ loop = "running"
    /\ loop' = "exited"
    /\ UNCHANGED <<pc, source, scan, parser, frame, ast, outcome, probe,
                   driver, calls, first>>

\* a client calls eval and handles what it raises
ClientEval ==
    /\ driver = "client" /\ calls + 1 < MaxCalls
    /\ \E line \in SessionLines :
          /\ Called(line, Eval(State, line))
          /\ UNCHANGED loop

\* the client calls eval with the source of its first call once more; its last
\* call is of this kind
ClientEvalAgain ==
    /\ driver = "client" /\ calls >= 1 /\ calls < MaxCalls
    /\ Called(first.source, Eval(State, first.source))
    /\ UNCHANGED loop

NextSession ==
    \/ ReplPrint
    \/ ReplRaise
    \/ Interrupt
    \/ ClientEval
    \/ ClientEvalAgain

SpecSession == InitSession /\ [][NextSession]_vars

(***************************************************************************)
(* Reference definitions, independent of the scanner, parser and evaluator *)
(***************************************************************************)
Squeeze(src) == SelectSeq(src, LAMBDA c : ~IsSpace(c))

\* digit runs separated by single operators, optional whitespace around them
ValidLine(src) ==
    LET w == Squeeze(src)
    IN  /\ w # <<>>
        /\ \A i \in 1..Len(w) : w[i] \in DecimalChars \cup OperatorChars
        /\ w[1] \in DecimalChars
        /\ w[Len(w)] \in DecimalChars
        /\ \A i \in 1..(Len(w) - 1) : ~(w[i] \in OperatorChars /\ w[i + 1] \in OperatorChars)
        /\ ~\E i, k \in 1..Len(src) :
                /\ i + 1 < k
                /\ src[i] \in DecimalChars
                /\ src[k] \in DecimalChars
                /\ \A j \in (i + 1)..(k - 1) : IsSpace(src[j])

\* the last position of w holding a character of set, 0 when there is none
LastOf(w, set) ==
    LET at == {i \in 1..Len(w) : w[i] \in set}
    IN  IF at = {} THEN 0 ELSE CHOOSE i \in at : \A j \in at : j <= i

RECURSIVE Power10(_)
Power10(n) == IF n = 0 THEN 1 ELSE 10 * Power10(n - 1)

RECURSIVE PositionalSum(_, _)
PositionalSum(w, i) ==
    IF i > Len(w) THEN 0
    ELSE DigitValue(w[i]) * Power10(Len(w) - i) + PositionalSum(w, i + 1)

Number(w) == PositionalSum(w, 1)

RECURSIVE Product(_)
Product(w) ==
    LET k == LastOf(w, {"*"})
    IN  IF k = 0 THEN Number(w)
        ELSE Product(SubSeq(w, 1, k - 1)) * Number(SubSeq(w, k + 1, Len(w)))

RECURSIVE Arithmetic(_)
\* the value of a valid line without whitespace: a sum or difference, grouped
\* from the left, of products
Arithmetic(w) ==
    LET k == LastOf(w, {"+", "-"})
    IN  IF k = 0 THEN Product(w)
        ELSE IF w[k] = "+"
             THEN Arithmetic(SubSeq(w, 1, k - 1)) + Product(SubSeq(w, k + 1, Len(w)))
             ELSE Arithmetic(SubSeq(w, 1, k - 1)) - Product(SubSeq(w, k + 1, Len(w)))

Finished == pc \in {"returned", "raised"}

\* Parser.parse has returned or raised
ParseDone == pc \in {"evaluate", "returned"} \/ (pc = "raised" /\ outcome.by # "Scanner")

(***************************************************************************)
(* C1                                                                      *)
(***************************************************************************)
\* C1: for every valid line (digit runs separated by single operators, optional
\* whitespace), eval returns the integer of standard arithmetic: * binds
\* tighter than + and -, equal precedence groups from the left.
C1_EvalIsArithmetic ==
    (Finished /\ ValidLine(source)) =>
        /\ pc = "returned"
        /\ outcome.kind = "int"
        /\ outcome.value = Arithmetic(Squeeze(source))

C1_Witness ==
    /\ pc = "returned"
    /\ ValidLine(source)
    /\ source = <<"3", "-", "3", "*", "3">>
    /\ outcome.value = -6

(***************************************************************************)
(* C2                                                                      *)
(***************************************************************************)
\* C2: when scanning, parsing or evaluating a line fails with
\* UnexpectedInputError, ParseError or EvaluationError, repl's loop goes on to
\* read the next line: a failing line never ends the loop.
C2_ReplSurvivesFailure ==
    (driver = "repl" /\ calls > 0
        /\ outcome.kind \in {"UnexpectedInputError", "ParseError", "EvaluationError"})
    => loop = "running"

(***************************************************************************)
(* C3                                                                      *)
(***************************************************************************)
\* C3: Parser.parse on an empty token sequence fails with ParseError, never
\* with an out-of-bounds indexing fault.
C3_EmptyTokensParseError ==
    (ParseDone /\ parser.tokens = <<>>) =>
        /\ pc = "raised"
        /\ outcome.by = "Parser"
        /\ outcome.kind = "ParseError"

(***************************************************************************)
(* C4                                                                      *)
(***************************************************************************)
IsOperatorToken(token) == token.type \in {"PLUS", "MINUS", "MUL"}

\* some operator is not followed by a NUM token
OperatorWithoutNum(tokens) ==
    \E i \in 1..Len(tokens) :
        /\ IsOperatorToken(tokens[i])
        /\ (i = Len(tokens) \/ tokens[i + 1].type # "NUM")

\* C4: Parser.parse fails with ParseError on every token sequence in which an
\* operator is not followed by a NUM token, a trailing operator and a lone
\* operator included.
C4_OperatorNeedsNum ==
    (ParseDone /\ OperatorWithoutNum(parser.tokens)) =>
        /\ pc = "raised"
        /\ outcome.by = "Parser"
        /\ outcome.kind = "ParseError"

(***************************************************************************)
(* C5                                                                      *)
(***************************************************************************)
\* NUM (op NUM)*
NumOpForm(tokens) ==
    /\ Len(tokens) % 2 = 1
    /\ \A i \in 1..Len(tokens) :
          IF i % 2 = 1 THEN tokens[i].type = "NUM" ELSE IsOperatorToken(tokens[i])

LastTokenOf(tokens, types) ==
    LET at == {i \in 1..Len(tokens) : tokens[i].type \in types}
    IN  IF at = {} THEN 0 ELSE CHOOSE i \in at : \A j \in at : j <= i

RECURSIVE MulChain(_)
\* a run of NUMs joined by MUL: a left-nested chain of Literals
MulChain(tokens) ==
    IF Len(tokens) = 1
    THEN [node |-> "Literal", value |-> tokens[1]]
    ELSE [node |-> "BinOp",
          left |-> MulChain(SubSeq(tokens, 1, Len(tokens) - 2)),
          operator |-> "MUL",
          right |-> [node |-> "Literal", value |-> tokens[Len(tokens)]]]

RECURSIVE ExpectedTree(_)
\* the MUL chains joined by PLUS / MINUS into a left-nested chain
ExpectedTree(tokens) ==
    LET k == LastTokenOf(tokens, {"PLUS", "MINUS"})
    IN  IF k = 0 THEN MulChain(tokens)
        ELSE [node |-> "BinOp",
              left |-> ExpectedTree(SubSeq(tokens, 1, k - 1)),
              operator |-> tokens[k].type,
              right |-> MulChain(SubSeq(tokens, k + 1, Len(tokens)))]

RECURSIVE InOrder(_)
\* the tokens of a tree, left to right; an operator is its type
InOrder(node) ==
    IF node.node = "BinOp"
    THEN InOrder(node.left) \o <<node.operator>> \o InOrder(node.right)
    ELSE <<node.value>>

TokensOrTypes(tokens) ==
    [i \in 1..Len(tokens) |->
        IF tokens[i].type = "NUM" THEN tokens[i] ELSE tokens[i].type]

RECURSIVE MulPrefix(_)
MulPrefix(tokens) ==
    IF Len(tokens) = 1 THEN tokens[1].lexeme
    ELSE <<"(", "MUL", " ">> \o MulPrefix(SubSeq(tokens, 1, Len(tokens) - 2))
            \o <<" ">> \o tokens[Len(tokens)].lexeme \o <<")">>

RECURSIVE PrefixForm(_)
\* the fully parenthesised prefix form of NUM (op NUM)*
PrefixForm(tokens) ==
    LET k == LastTokenOf(tokens, {"PLUS", "MINUS"})
    IN  IF k = 0 THEN MulPrefix(tokens)
        ELSE <<"(", tokens[k].type, " ">> \o PrefixForm(SubSeq(tokens, 1, k - 1))
                \o <<" ">> \o MulPrefix(SubSeq(tokens, k + 1, Len(tokens))) \o <<")">>

\* C5: for every token sequence NUM (op NUM)*, parse returns the tree whose
\* MUL runs are left-nested chains of Literals, joined by PLUS / MINUS into a
\* left-nested chain, every token once and in source order; Formatter renders
\* it as the fully parenthesised prefix form.
C5_ParseTreeShape ==
    (ParseDone /\ NumOpForm(parser.tokens)) =>
        /\ outcome.by # "Parser"
        /\ ast = ExpectedTree(parser.tokens)
        /\ InOrder(ast) = TokensOrTypes(parser.tokens)
        /\ Format(ast) = PrefixForm(parser.tokens)

C5_Witness ==
    /\ pc = "evaluate"
    /\ NumOpForm(parser.tokens)
    /\ Format(ast) = <<"(", "PLUS", " ", "3", " ", "(", "MUL", " ", "3", " ", "3", ")", ")">>

(***************************************************************************)
(* C6                                                                      *)
(***************************************************************************)
\* a digit is a character Scanner.scan takes for one (str.isnumeric)
Scannable(src) ==
    \A i \in 1..Len(src) :
        src[i] \in OperatorChars \/ IsNumeric(src[i]) \/ IsSpace(src[i])

\* where a token starts: an operator, or the first character of a digit run
TokenStarts(src) ==
    {i \in 1..Len(src) :
        \/ src[i] \in OperatorChars
        \/ IsNumeric(src[i]) /\ (i = 1 \/ ~IsNumeric(src[i - 1]))}

\* the last position of the maximal digit run that holds position i
RunEnd(src, i) ==
    CHOOSE j \in i..Len(src) :
        /\ \A m \in i..j : IsNumeric(src[m])
        /\ (j = Len(src) \/ ~IsNumeric(src[j + 1]))

TokenStartingAt(src, i) ==
    IF src[i] \in OperatorChars
    THEN [type |-> CASE src[i] = "+" -> "PLUS" [] src[i] = "-" -> "MINUS" [] OTHER -> "MUL",
          lexeme |-> <<src[i]>>]
    ELSE [type |-> "NUM", lexeme |-> SubSeq(src, i, RunEnd(src, i))]

\* the n-th smallest element of a set of numbers
Nth(set, n) == CHOOSE i \in set : Cardinality({j \in set : j < i}) = n - 1

ExpectedTokens(src) ==
    [n \in 1..Cardinality(TokenStarts(src)) |->
        TokenStartingAt(src, Nth(TokenStarts(src), n))]

\* C6: for a source of digits, +, -, * and whitespace only, scan returns, in
\* source order, one NUM token per maximal digit run (its lexeme the whole
\* run), one PLUS / MINUS / MUL token per operator character and nothing for
\* whitespace.
C6_ScanTokens ==
    (pc # "scan" /\ Scannable(source)) =>
        /\ outcome.by # "Scanner"
        /\ scan.tokens = ExpectedTokens(source)

C6_Witness ==
    /\ pc = "parse"
    /\ source = <<"3", "3", " ", "+", "3">>
    /\ scan.tokens = <<[type |-> "NUM", lexeme |-> <<"3", "3">>],
                       [type |-> "PLUS", lexeme |-> <<"+">>],
                       [type |-> "NUM", lexeme |-> <<"3">>]>>

(***************************************************************************)
(* C7                                                                      *)
(***************************************************************************)
Unexpected(src) ==
    {i \in 1..Len(src) :
        ~(src[i] \in OperatorChars \/ IsNumeric(src[i]) \/ IsSpace(src[i]))}

FirstUnexpected(src) ==
    CHOOSE i \in Unexpected(src) : \A j \in Unexpected(src) : i <= j

C8_EvalIdempotent ==
    (calls >= 2 /\ source = first.source) => outcome = first.outcome

C8_Witness ==
    /\ calls = 3
    /\ source = first.source
    /\ source = <<"3">>
    /\ outcome = first.outcome
    /\ outcome.kind = "int"
    /\ first.failed
    /\ parser.current = 0

(***************************************************************************)
(* C9                                                                      *)
(***************************************************************************)
TokenIndices == 0..(Len(parser.tokens) - 1)

\* C9: during a parse of a non-empty token sequence the cursor stays within
\* 0 .. len(tokens)-1, every index __peek and __previous use is within
\* bounds, and on the last token the lookahead check is false and consumes
\* nothing.
C9_CursorInBounds ==
    (pc \notin {"scan", "parse"} /\ parser.tokens # <<>>) =>
        /\ parser.current \in TokenIndices
        /\ probe.indices \subseteq TokenIndices
        /\ outcome.kind # "IndexError"
        /\ (probe.matched /\ probe.on_last) => (~probe.value /\ ~probe.moved)

C9_Witness ==
    /\ pc = "evaluate"
    /\ Len(parser.tokens) = 5
    /\ parser.current = 4
    /\ probe.matched
    /\ probe.on_last
    /\ ~probe.moved

(***************************************************************************)
(* C10                                                                     *)
(***************************************************************************)
\* C10: Evaluator.evaluate returns an integer or fails with EvaluationError,
\* and with nothing else, for every Literal lexeme the scanner can emit.
C10_EvaluateRaisesOnlyEvaluationError ==
    (Finished /\ ParseDone /\ outcome.by # "Parser") =>
        \/ pc = "returned" /\ outcome.kind = "int"
        \/ pc = "raised" /\ outcome.by = "Evaluator" /\ outcome.kind = "EvaluationError"

====
